---- MODULE Spec2Model ----
(***************************************************************************)
(* kgnews: the batch-aware story synchronisation of MainScreen             *)
(* (_load_stories and its callers), the CacheManager it writes through and *)
(* the APIClient calls it awaits.                                          *)
(*                                                                         *)
(* Python strings are sequences of one-character strings, so that the      *)
(* f-string of _get_cache_path and the substring test of clear_old_caches  *)
(* are computed as the code computes them.  A dict is the sequence of its  *)
(* items in insertion order.  Each coroutine of MainScreen is a process;   *)
(* an action is the code between two awaits.                               *)
(***************************************************************************)
EXTENDS Integers, Sequences, FiniteSets, TLC

\* ------------------------------------------------------------------ bounds
\* the stories a get_stories response carries when it carries any
MaxStories == 2

\* the categories of a screen whose refresh cycles are interleaved
MaxInterleavedCategories == 1

\* ------------------------------------------------------------------ values
Tech == <<"t", "e", "c", "h">>
\* a key with a character that no widget id may hold
SciFi == <<"s", "c", "i", " ", "f", "i">>
CategoryKeys == {Tech, SciFi}

B1 == <<"b", "1">>
B2 == <<"b", "2">>
B10 == <<"b", "1", "0">>
\* the batches the upstream publishes, in the order it publishes them: ids
\* are opaque, a later id may be part of an earlier one
Publications == <<B10, B1, B2>>
BatchIds == {Publications[i] : i \in DOMAIN Publications}

\* "" and None
EmptyStr == <<>>
NoneVal == <<"None">>

\* the coroutines of MainScreen: the message pump runs on_mount and
\* action_refresh, the worker runs _show_config_and_reload
Procs == {"pump", "worker"}

\* ------------------------------------------------------------- python dict
DictHas(d, k) == \E i \in 1..Len(d) : d[i].key = k

\* d.get(k, default)
DictGet(d, k, default) ==
    IF DictHas(d, k)
    THEN d[CHOOSE i \in 1..Len(d) : d[i].key = k].value
    ELSE default

\* variant of DictSet: the assignment is lost
DictSetLost(d, k, v) == d

\* d[k] = v: an existing key keeps its position, a new key goes last
DictSet(d, k, v) ==
    IF DictHas(d, k)
    THEN [i \in 1..Len(d) |-> IF d[i].key = k THEN [key |-> k, value |-> v] ELSE d[i]]
    ELSE Append(d, [key |-> k, value |-> v])

\* ------------------------------------------------------------------ models
\* the uuid the categories endpoint gives a category
RemoteId(name) == <<"u", "u", "i", "d", "-">> \o name

\* Category(id, name, display_name): id is the uuid the categories endpoint
\* gave, name the stable key
Category(name) == [id |-> RemoteId(name), name |-> name]

\* the k-th Story the upstream serves for the category with remote id `id`
Story(id, k) ==
    [id |-> <<id, k>>, title |-> id, url |-> id, source |-> k,
     published_at |-> k, excerpt |-> NoneVal]

\* what get_stories(id) parses from a response carrying n clusters
UpstreamStories(id, n) == [k \in 1..n |-> Story(id, k)]

\* datetime.isoformat and datetime.fromisoformat
IsoFormat(t) == [iso |-> t]

FromIsoFormat(s) == s.iso

\* the dict save_stories writes for one story
StoryDict(story) ==
    [id |-> story.id, title |-> story.title, url |-> story.url,
     source |-> story.source, published_at |-> IsoFormat(story.published_at),
     excerpt |-> story.excerpt]

\* the keys from_api_response requires of its dict, line 43
StoryRequiredFields == {"id", "title", "url", "source", "published_at"}

\* a persisted story record that lacks the required key "id"
Truncated(story_dict) ==
    [k \in (DOMAIN story_dict) \ {"id"} |-> story_dict[k]]

\* lines 43-47: from_api_response does not raise on the persisted record
Validates(data) == StoryRequiredFields \subseteq DOMAIN data

\* Story.from_api_response on a dict written by save_stories; line 72: an
\* excerpt that is falsy ("" or null) becomes None
FromApiResponse(data) ==
    [id |-> data.id, title |-> data.title, url |-> data.url,
     source |-> data.source, published_at |-> FromIsoFormat(data.published_at),
     excerpt |-> IF data.excerpt # EmptyStr /\ data.excerpt # NoneVal
                 THEN data.excerpt
                 ELSE NoneVal]

\* ----------------------------------------------------- JSON, python values
\* What response.json() gives: a JSON value tagged with its python type t.
\* s holds the characters of a str or the digits of an int, l the elements
\* of a list, d the function from the keys of a dict to their values.
JNull == [t |-> "NoneType"]

JStr(text) == [t |-> "str", s |-> text]

JInt(digits) == [t |-> "int", s |-> digits]

JList(elements) == [t |-> "list", l |-> elements]

JDict(items) == [t |-> "dict", d |-> items]

\* a key the upstream left out of an object
Absent == [t |-> "absent"]

\* the JSON object of the items that are given
Obj(items) ==
    JDict([k \in {x \in DOMAIN items : items[x].t # "absent"} |-> items[k]])

\* `not x`
Falsy(x) ==
    \/ x.t = "NoneType"
    \/ (x.t = "str" /\ x.s = EmptyStr)
    \/ (x.t = "list" /\ x.l = <<>>)
    \/ (x.t = "int" /\ x.s = <<"0">>)
    \/ (x.t = "dict" /\ DOMAIN x.d = {})

NoneStr == <<"N", "o", "n", "e">>
Unknown == <<"u", "n", "k", "n", "o", "w", "n">>

\* str(x): the text of a str, "None" for None, the digits of an int, the
\* repr of a list or a dict
PyStr(x) ==
    IF x.t = "NoneType" THEN NoneStr
    ELSE IF x.t \in {"str", "int"} THEN x.s
    ELSE IF x.t = "list" THEN <<"[", "]">>
    ELSE <<"{", "}">>

\* d.get(k, default) on a dict
Get(dict, k, default) == IF k \in DOMAIN dict.d THEN dict.d[k] ELSE default

\* the texts datetime.fromisoformat accepts after 'Z' is replaced
IsoDate == <<"2", "0", "2", "4", "-", "0", "1", "-", "0", "1">>
IsoDates == {IsoDate}

\* Story.from_api_response lines 50-64: published_at is a str that parses as
\* an ISO date or as a float, or a number; anything else is a ValueError
ParsesDate(x) ==
    \/ x.t = "int"
    \/ (x.t = "str" /\ x.s \in IsoDates)

\* Story.from_api_response on a python dict `data` (a function from keys to
\* JSON values).  Line 44 tests `field not in data` only; lines 67-70 take
\* str() of whatever value the key has.
StoryFromDict(data) ==
    IF ~(StoryRequiredFields \subseteq DOMAIN data)
    THEN [raised |-> "ValueError", story |-> NoneVal]
    ELSE IF ~ParsesDate(data["published_at"])
    THEN [raised |-> "ValueError", story |-> NoneVal]
    ELSE [raised |-> "",
          story |-> [id |-> PyStr(data["id"]),
                     title |-> PyStr(data["title"]),
                     url |-> PyStr(data["url"]),
                     source |-> PyStr(data["source"]),
                     published_at |-> data["published_at"].s,
                     excerpt |-> IF "excerpt" \in DOMAIN data
                                    /\ ~Falsy(data["excerpt"])
                                 THEN PyStr(data["excerpt"])
                                 ELSE NoneVal]]

\* Category.from_api_response on a python dict: line 36 tests
\* `field not in data` only, lines 42-44 take str() of the values
CategoryRequiredFields == {"id", "name", "display_name"}

CategoryFromDict(data) ==
    IF ~(CategoryRequiredFields \subseteq DOMAIN data)
    THEN [raised |-> "ValueError", category |-> NoneVal]
    ELSE [raised |-> "",
          category |-> [id |-> PyStr(data["id"]),
                        name |-> PyStr(data["name"]),
                        display_name |-> PyStr(data["display_name"])]]

\* get_categories lines 124-139, one element of categories_data.  The dict
\* built at lines 127-131 has the three keys whatever cat_data holds, with
\* None for a key cat_data lacks; cat_data.get on what is no dict raises
\* AttributeError, which neither line 137 nor lines 145-161 catch.
ParseCategory(cat_data, acc) ==
    IF cat_data.t # "dict"
    THEN [acc EXCEPT !.raised = "AttributeError"]
    ELSE LET category_dict ==
                 [id |-> Get(cat_data, "id", JNull),
                  name |-> Get(cat_data, "categoryId", JNull),
                  display_name |-> Get(cat_data, "categoryName", JNull)]
             parsed == CategoryFromDict(category_dict)
         IN  IF parsed.raised # ""
             THEN acc
             ELSE [acc EXCEPT !.items = Append(@, parsed.category)]

RECURSIVE ParseCategories(_, _, _)
ParseCategories(categories_data, i, acc) ==
    IF i > Len(categories_data) \/ acc.raised # ""
    THEN acc
    ELSE ParseCategories(categories_data, i + 1,
                         ParseCategory(categories_data[i], acc))

\* get_categories on the body `data` of the response, lines 116-143
GetCategories(data) ==
    IF data.t # "dict"
    THEN [raised |-> "AttributeError", items |-> <<>>]
    ELSE LET categories_data == Get(data, "categories", JList(<<>>))
         IN  IF categories_data.t # "list"
             THEN [raised |-> "APIResponseError", items |-> <<>>]
             ELSE ParseCategories(categories_data.l, 1,
                                  [raised |-> "", items |-> <<>>])

\* get_stories lines 204-231, one element of stories_data
ParseCluster(story_data, acc) ==
    IF story_data.t # "dict"
    THEN [acc EXCEPT !.raised = "AttributeError"]
    ELSE LET articles == Get(story_data, "articles", JList(<<>>))
         IN  IF Falsy(articles)
             THEN acc
             ELSE IF articles.t = "dict"
             THEN acc    \* articles[0] raises KeyError, caught at line 229
             ELSE IF articles.t = "int"
             THEN [acc EXCEPT !.raised = "TypeError"]
             ELSE LET first_article ==
                          IF articles.t = "str"
                          THEN JStr(<<articles.s[1]>>)
                          ELSE articles.l[1]
                  IN  IF first_article.t # "dict"
                      THEN [acc EXCEPT !.raised = "AttributeError"]
                      ELSE LET story_dict ==
                                   [id |-> Get(story_data, "id",
                                               JStr(PyStr(Get(story_data,
                                                              "cluster_number",
                                                              JStr(Unknown))))),
                                    title |-> Get(story_data, "title", JNull),
                                    url |-> Get(first_article, "link", JNull),
                                    source |-> Get(first_article, "domain", JNull),
                                    published_at |-> Get(first_article, "date", JNull),
                                    excerpt |-> Get(story_data, "short_summary", JNull)]
                               parsed == StoryFromDict(story_dict)
                           IN  IF parsed.raised # ""
                               THEN acc
                               ELSE [acc EXCEPT !.items = Append(@, parsed.story)]

RECURSIVE ParseStories(_, _, _)
ParseStories(stories_data, i, acc) ==
    IF i > Len(stories_data) \/ acc.raised # ""
    THEN acc
    ELSE ParseStories(stories_data, i + 1, ParseCluster(stories_data[i], acc))

\* get_stories on the body `data` of the response, lines 194-236; batch_id
\* is data.get("batchId", "")
GetStories(data) ==
    IF data.t # "dict"
    THEN [raised |-> "AttributeError", items |-> <<>>, batch_id |-> EmptyStr]
    ELSE LET batch_id == Get(data, "batchId", JStr(EmptyStr))
             stories_data == Get(data, "stories", JList(<<>>))
         IN  IF stories_data.t # "list"
             THEN [raised |-> "APIResponseError", items |-> <<>>,
                   batch_id |-> EmptyStr]
             ELSE LET acc == ParseStories(stories_data.l, 1,
                                          [raised |-> "", items |-> <<>>])
                  IN  [raised |-> acc.raised, items |-> acc.items,
                       batch_id |-> IF batch_id.t = "str" THEN batch_id.s ELSE NoneVal]

\* the bounds of the limit parameter, line 181
MinLimit == 1
MaxLimit == 100

PyMax(a, b) == IF a >= b THEN a ELSE b
PyMin(a, b) == IF a <= b THEN a ELSE b

\* variant of ClampLimit: the limit is sent as given
ClampLimitAsGiven(limit) == limit

\* line 181: limit = max(1, min(100, limit))
ClampLimit(limit) == PyMax(MinLimit, PyMin(MaxLimit, limit))


\* ------------------------------------------------------------ CacheManager
JsonSuffix == <<".", "j", "s", "o", "n">>

\* f"{category_id}_{batch_id}.json"
GetCachePath(category_id, batch_id) ==
    category_id \o <<"_">> \o batch_id \o JsonSuffix

\* python's `needle in hay` on strings
Contains(needle, hay) ==
    \E i \in 0..(Len(hay) - Len(needle)) :
        SubSeq(hay, i + 1, i + Len(needle)) = needle

\* a file of the cache directory: what json.load makes of it
CacheFile(category_id, batch_id, stories) ==
    [kind |-> "object", batch_id |-> batch_id, category_id |-> category_id,
     stories |-> [i \in 1..Len(stories) |-> StoryDict(stories[i])]]

\* a file that save_stories did not write whole:
\*   "invalid_json"      text that json.load rejects (JSONDecodeError)
\*   "undecodable"       bytes that are not UTF-8 (UnicodeDecodeError)
\*   "not_object"        JSON that is no object, e.g. a list
\*   "no_stories"        a JSON object without the key "stories"
\*   "stories_null"      a JSON object whose "stories" is null or a number
\*   "stories_not_list"  a JSON object whose "stories" is an object or a string
DamageKinds ==
    {"invalid_json", "undecodable", "not_object", "no_stories", "stories_null",
     "stories_not_list"}

DamagedFile(kind) ==
    [kind |-> kind, batch_id |-> EmptyStr, category_id |-> EmptyStr,
     stories |-> <<>>]

\* a file that does not hold JSON
InvalidFile == DamagedFile("invalid_json")

\* what a get_cached_stories call gives: found = FALSE is None, raised = TRUE
\* is an exception that leaves the method
Returned(found, stories, raised) ==
    [found |-> found, stories |-> stories, raised |-> raised]

\* get_cached_stories, lines 53-85.  json.load raising JSONDecodeError is
\* caught at line 83, UnicodeDecodeError is not; line 64 rejects what is no
\* dict or has no "stories"; line 70 iterates data["stories"]: None or a
\* number raises TypeError, which no clause catches, a dict or a string is
\* iterated and each element fails to parse (line 74), leaving [].  A story
\* record that from_api_response rejects is left out (lines 74-76) and the
\* records that parse are returned.
GetCachedStories(files, category_id, batch_id) ==
    LET cache_path == GetCachePath(category_id, batch_id)
    IN  IF cache_path \notin DOMAIN files
        THEN Returned(FALSE, <<>>, FALSE)
        ELSE IF files[cache_path].kind \in {"invalid_json", "not_object", "no_stories"}
        THEN Returned(FALSE, <<>>, FALSE)
        ELSE IF files[cache_path].kind \in {"undecodable", "stories_null"}
        THEN Returned(FALSE, <<>>, TRUE)
        ELSE IF files[cache_path].kind = "stories_not_list"
        THEN Returned(TRUE, <<>>, FALSE)
        ELSE LET kept == SelectSeq(files[cache_path].stories, Validates)
             IN  Returned(TRUE,
                          [i \in 1..Len(kept) |-> FromApiResponse(kept[i])],
                          FALSE)

\* how one save_stories call ends: written, or open() raised OSError
SaveOutcomes == {"ok", "open_failed"}

WriteFile(files, path, content) ==
    [p \in (DOMAIN files) \cup {path} |-> IF p = path THEN content ELSE files[p]]

\* save_stories
SaveStories(files, category_id, batch_id, stories, outcome) ==
    LET cache_path == GetCachePath(category_id, batch_id)
    IN  IF outcome = "ok"
        THEN WriteFile(files, cache_path, CacheFile(category_id, batch_id, stories))
        ELSE files

\* variant of OldCaches: the test of line 143 inverted
OldCachesInverted(files, current_batch_id) ==
    {p \in DOMAIN files : Contains(current_batch_id, p)}

\* the files clear_old_caches unlinks when no unlink fails
OldCaches(files, current_batch_id) ==
    {p \in DOMAIN files : ~Contains(current_batch_id, p)}

\* the directory after unlinking the files of `removed`
Unlink(files, removed) == [p \in (DOMAIN files) \ removed |-> files[p]]

\* variant of ClearOldCaches: the loop ends after its first unlink
ClearOneOldCache(files, current_batch_id) ==
    IF OldCaches(files, current_batch_id) = {}
    THEN files
    ELSE Unlink(files, {CHOOSE p \in OldCaches(files, current_batch_id) : TRUE})

\* clear_old_caches, no unlink failing
ClearOldCaches(files, current_batch_id) ==
    Unlink(files, OldCaches(files, current_batch_id))


\* ----------------------------------------------------- Config, ConfigManager
\* a theme name is never taken apart: it is one element
TextualDark == <<"textual-dark">>
Nord == <<"nord">>

\* Config(selected_categories, theme)
Config(selected_categories, theme) ==
    [selected_categories |-> selected_categories, theme |-> theme]

\* Config.default
ConfigDefault == Config(<<>>, TextualDark)

\* Config.to_dict, as json.dump writes it and json.load reads it back
ConfigToDict(config) ==
    JDict([selected_categories |->
               JList([i \in 1..Len(config.selected_categories) |->
                         JStr(config.selected_categories[i])]),
           theme |-> JStr(config.theme)])

\* Config.from_dict, lines 42-60: data.get on what is no dict raises
\* AttributeError, turned into ValueError at line 59; the items of the list
\* go through str()
ConfigFromDict(data) ==
    IF data.t # "dict"
    THEN [raised |-> "ValueError", config |-> ConfigDefault]
    ELSE LET selected_categories == Get(data, "selected_categories", JList(<<>>))
             theme == Get(data, "theme", JStr(TextualDark))
         IN  IF selected_categories.t # "list"
             THEN [raised |-> "ValueError", config |-> ConfigDefault]
             ELSE [raised |-> "",
                   config |-> Config([i \in 1..Len(selected_categories.l) |->
                                         PyStr(selected_categories.l[i])],
                                     IF theme.t = "str" THEN theme.s
                                                        ELSE TextualDark)]

\* what config.json is:
\*   "missing"       no file
\*   "unreadable"    open() raises OSError (a directory, no permission)
\*   "undecodable"   bytes that are not UTF-8 (UnicodeDecodeError)
\*   "invalid_json"  text that json.load rejects (JSONDecodeError)
\*   "too_deep"      brackets nested deeper than the interpreter's recursion
\*                   limit: json.load raises RecursionError
\*   "json"          a JSON value, `data`
ConfigFile(kind, data) == [kind |-> kind, data |-> data]

MissingConfig == ConfigFile("missing", JNull)

\* the file save() writes for a config, lines 88-89
SavedConfig(config) == ConfigFile("json", ConfigToDict(config))

\* what lines 53-57 of load raise on the file, "" when nothing
LoadError(file) ==
    IF file.kind = "unreadable" THEN "OSError"
    ELSE IF file.kind = "undecodable" THEN "UnicodeDecodeError"
    ELSE IF file.kind = "invalid_json" THEN "JSONDecodeError"
    ELSE IF file.kind = "too_deep" THEN "RecursionError"
    ELSE ConfigFromDict(file.data).raised

\* the except clauses of load, lines 61 and 68: JSONDecodeError and
\* UnicodeDecodeError are ValueErrors
LoadCatches(exception) ==
    exception \in {"JSONDecodeError", "UnicodeDecodeError", "ValueError", "OSError"}

\* self._config of a ConfigManager: nothing loaded yet, or the Config
NoConfig == <<>>

\* ConfigManager.load, lines 41-73, on a manager whose _config is `cached`:
\* what it returns or raises, and the _config it leaves
Load(cached, file) ==
    IF cached # NoConfig
    THEN [raised |-> "", config |-> cached[1], cached |-> cached]
    ELSE IF file.kind = "missing"
    THEN [raised |-> "", config |-> ConfigDefault, cached |-> <<ConfigDefault>>]
    ELSE IF LoadError(file) = ""
    THEN [raised |-> "", config |-> ConfigFromDict(file.data).config,
          cached |-> <<ConfigFromDict(file.data).config>>]
    ELSE IF LoadCatches(LoadError(file))
    THEN [raised |-> "", config |-> ConfigDefault, cached |-> <<ConfigDefault>>]
    ELSE [raised |-> LoadError(file), config |-> ConfigDefault, cached |-> cached]

\* `name in selected_category_ids`: the names a selection lists
Members(selected_categories) ==
    {selected_categories[i] : i \in DOMAIN selected_categories}

\* ConfigScreen._save_config, lines 224-252, on the screen's own
\* ConfigManager: the file it leaves and the result the screen is dismissed
\* with.  save_ok = FALSE: save() raises OSError.
SaveConfig(file, selected_ids, save_ok) ==
    LET loaded == Load(NoConfig, file)
    IN  IF loaded.raised # "" \/ ~save_ok
        THEN [result |-> FALSE, file |-> file]
        ELSE [result |-> TRUE,
              file |-> SavedConfig(Config(selected_ids, loaded.config.theme))]

\* ------------------------------------------------------------- CategoryTabs
\* str.replace(old, "_") for the characters add_tab replaces, lines 54-59
Sanitized == {"|", "(", ")", " "}

SafeName(name) ==
    [i \in 1..Len(name) |-> IF name[i] \in Sanitized THEN "_" ELSE name[i]]

TabPrefix == <<"t", "a", "b", "-">>

\* line 60: tab_id = f"tab-{safe_name}"
TabId(name) == TabPrefix \o SafeName(name)

\* action_refresh lines 275-279: active_tab_id.replace("tab-", "", 1) if it
\* starts with "tab-"
StartsWith(text, prefix) ==
    Len(text) >= Len(prefix) /\ SubSeq(text, 1, Len(prefix)) = prefix

ActiveCategoryId(active_tab_id) ==
    IF StartsWith(active_tab_id, TabPrefix)
    THEN SubSeq(active_tab_id, Len(TabPrefix) + 1, Len(active_tab_id))
    ELSE active_tab_id

\* ListView.index: None, nothing is highlighted, or <<i>> for item i
NoIndex == <<>>

\* self._tab_to_category of a widget without tabs
NoTabs == [tab_id \in {} |-> <<>>]

\* add_tab, lines 60-62: the id is appended to _tab_ids and mapped to the
\* category's name
AddTab(tabs, name) ==
    [tab_ids |-> Append(tabs.tab_ids, TabId(name)),
     tab_to_category |->
         [tab_id \in (DOMAIN tabs.tab_to_category) \cup {TabId(name)} |->
             IF tab_id = TabId(name) THEN name ELSE tabs.tab_to_category[tab_id]]]

\* add_tab for each category of a list, in its order
RECURSIVE AddTabs(_, _)
AddTabs(tabs, categories) ==
    IF categories = <<>>
    THEN tabs
    ELSE AddTabs(AddTab(tabs, Head(categories).name), Tail(categories))


\* ------------------------------------------------------------ ConfigScreen
Gruvbox == <<"gruvbox">>

\* a theme name config.json may hold that the app does not know
Sepia == <<"sepia">>

\* of the twelve themes of app.py lines 34-47 and config_screen.py lines
\* 90-103, three
AvailableThemes == {TextualDark, Nord, Gruvbox}

\* _apply_theme, app.py lines 61-72: the value app.theme is set to
ApplyTheme(theme_name) ==
    IF theme_name \in AvailableThemes THEN theme_name ELSE TextualDark

\* no ConfigScreen is on top of the main screen.  Of an open screen: pc is
\* where its on_mount stands, original_theme and theme_select are
\* self._original_theme and the value of the theme Select, config the _config
\* of its ConfigManager, theme_at_open the app's theme when it was pushed.
NoScreen ==
    [pc |-> "closed", original_theme |-> NoneVal, theme_select |-> TextualDark,
     config |-> NoConfig, theme_at_open |-> NoneVal]

\* ------------------------------------------------------------------- state
VARIABLES
    \* MainScreen fields
    categories,              \* self.categories: list[Category]
    stories_by_category,     \* self.stories_by_category: dict name -> list[Story]
    current_batch_id,        \* self.current_batch_id
    \* the cache directory: file name -> content
    cache,
    \* the batch the upstream service currently publishes
    upstream_batch,
    \* the last call made on the CacheManager by a caller that drives it
    \* directly, with what it returned
    call,
    \* per coroutine: where it is suspended, and the locals it holds there
    pc,
    selected_category_ids,
    categories_to_fetch,
    results,
    \* per coroutine, what its current refresh cycle has done so far
    resolved,                \* the id get_latest_batch returned to this cycle
    cache0,                  \* the cache directory when the cycle began
    lookups,                 \* get_cached_stories calls: [category_id, batch_id, found]
    calls,                   \* get_stories calls: the Category each was made for
    writes,                  \* save_stories calls: [category_id, batch_id, outcome]
    prunes,                  \* clear_old_caches calls: the batch id of each
    prior,                   \* the batch resolved by the cycle that completed
                             \* right before this one was started by a refresh
    \* per key of stories_by_category: the batch resolved by the cycle that
    \* assigned the entry
    loaded_for,
    \* config.json, and self.config_manager._config of MainScreen
    config_file,
    main_config,
    \* self._category_tabs.active and the stories self._story_list shows
    active,
    story_list,
    \* per coroutine: the handler it runs, or ran last
    handler,
    \* CategoryTabs: self._tab_ids and self._tab_to_category
    tab_ids,
    tab_to_category,
    \* StoryList: self._expanded_stories and self.index, the highlighted item
    expanded_stories,
    index,
    \* app.theme, and the ConfigScreen on top of the main screen
    app_theme,
    config_screen

vars ==
    <<categories, stories_by_category, current_batch_id, cache, upstream_batch,
      call, pc, selected_category_ids, categories_to_fetch, results,
      resolved, cache0, lookups, calls, writes, prunes, prior, loaded_for,
      config_file, main_config, active, story_list, handler,
      tab_ids, tab_to_category, expanded_stories, index, app_theme, config_screen>>

configVars == <<config_file, main_config>>

tabVars == <<tab_ids, tab_to_category>>

listVars == <<expanded_stories, index>>

themeVars == <<app_theme, config_screen>>

widgetVars == <<tabVars, listVars, themeVars>>

uiVars == <<active, story_list>>

screenVars == <<categories, stories_by_category, current_batch_id, loaded_for>>

localVars == <<selected_category_ids, categories_to_fetch, results>>

cycleVars == <<resolved, cache0, lookups, calls, writes, prunes, prior>>

\* a coroutine that is not inside a handler
AtRest(p) == pc[p] \in {"idle", "skipped", "error", "done", "failed"}

\* python truthiness of a batch id
Truthy(id) == id # EmptyStr /\ id # NoneVal

EmptyFiles == [p \in {} |-> InvalidFile]

\* no call made yet
NoCall ==
    [op |-> "none", category_id |-> EmptyStr, batch_id |-> EmptyStr,
     stories |-> <<>>, outcome |-> "none", removed |-> {}]

\* the selections a configuration screen saves: the checked categories, in
\* the order the screen lists them
Selections == {<<SciFi>>, <<Tech, SciFi>>}

\* what config.json is when the application starts
InitialConfigFiles ==
    {MissingConfig, ConfigFile("too_deep", JNull)}
        \cup {SavedConfig(Config(selected, TextualDark)) : selected \in Selections}

\* MainScreen.__init__ and compose; nothing in the cache directory
InitScreen ==
    /\ categories = <<>>
    /\ stories_by_category = <<>>
    /\ current_batch_id = NoneVal
    /\ cache = EmptyFiles
    /\ upstream_batch = Publications[1]
    /\ call = NoCall
    /\ pc = [p \in Procs |-> IF p = "pump" THEN "init" ELSE "idle"]
    /\ selected_category_ids = [p \in Procs |-> {}]
    /\ categories_to_fetch = [p \in Procs |-> <<>>]
    /\ results = [p \in Procs |-> <<>>]
    /\ resolved = [p \in Procs |-> NoneVal]
    /\ cache0 = [p \in Procs |-> EmptyFiles]
    /\ lookups = [p \in Procs |-> <<>>]
    /\ calls = [p \in Procs |-> <<>>]
    /\ writes = [p \in Procs |-> <<>>]
    /\ prunes = [p \in Procs |-> <<>>]
    /\ prior = [p \in Procs |-> NoneVal]
    /\ loaded_for = [k \in {} |-> NoneVal]
    /\ main_config = NoConfig
    /\ active = EmptyStr
    /\ story_list = <<>>
    /\ handler = [p \in Procs |-> "none"]
    /\ tab_ids = <<>>
    /\ tab_to_category = NoTabs
    /\ expanded_stories = {}
    /\ index = NoIndex
    /\ config_screen = NoScreen

\* KagiNewsApp.on_mount applies the theme of config.json, "textual-dark" in
\* every file the application starts on here
Init ==
    /\ InitScreen
    /\ config_file \in InitialConfigFiles
    /\ app_theme = TextualDark


\* ----------------------------------------------------------- _load_stories
\* dict update of the per-key batch tag
TagSet(tags, k, batch) ==
    [x \in (DOMAIN tags) \cup {k} |-> IF x = k THEN batch ELSE tags[x]]

\* variant of IsCacheMiss: every category is marked for fetching
IsCacheMissAlways(cached) == TRUE

\* line 95: `if cached_stories is not None` fails, the category is marked
IsCacheMiss(cached) == ~cached.found

\* lines 89-102: the lookup loop over self.categories, from index i on.
\* acc carries stories_by_category (sbc), categories_to_fetch (to_fetch),
\* the lookups made and the batch tags of sbc; acc.raised: a lookup raised,
\* which ends the loop and leaves _load_stories.
RECURSIVE Classify(_, _, _, _, _)
Classify(cats, i, batch_id, files, acc) ==
    IF i > Len(cats) \/ acc.raised
    THEN acc
    ELSE LET category == cats[i]
             cached_stories == GetCachedStories(files, category.name, batch_id)
             look == [category_id |-> category.name, batch_id |-> batch_id,
                      found |-> cached_stories.found]
         IN  Classify(cats, i + 1, batch_id, files,
                 IF cached_stories.raised
                 THEN [acc EXCEPT !.raised = TRUE,
                                  !.lookups = Append(@, look)]
                 ELSE IF IsCacheMiss(cached_stories)
                 THEN [acc EXCEPT !.to_fetch = Append(@, category),
                                  !.lookups = Append(@, look)]
                 ELSE [acc EXCEPT !.sbc = DictSet(@, category.name,
                                                  cached_stories.stories),
                                  !.tags = TagSet(@, category.name, batch_id),
                                  !.lookups = Append(@, look)])

\* variant of FetchResult: the tuple carries category.id
FetchResultById(category, kind, stories, batch_id) ==
    [kind |-> kind, name |-> category.id, id |-> category.id,
     stories |-> IF kind = "ok" THEN stories ELSE <<>>,
     batch_id |-> IF kind = "ok" THEN batch_id ELSE EmptyStr]

\* what fetch_category_stories returns (lines 114-120): a successful
\* get_stories gives its stories and the response's batchId, an APIError
\* gives (name, [], "")
FetchResult(category, kind, stories, batch_id) ==
    [kind |-> kind, name |-> category.name, id |-> category.id,
     stories |-> IF kind = "ok" THEN stories ELSE <<>>,
     batch_id |-> IF kind = "ok" THEN batch_id ELSE EmptyStr]

\* a fetch_category_stories coroutine gather has started
Pending(category) ==
    [kind |-> "pending", name |-> category.name, id |-> category.id,
     stories |-> <<>>, batch_id |-> EmptyStr]

\* variant of HasBatchId: the check of line 80 is missing
HasBatchIdAlways(id) == TRUE

\* lines 80-83: `if not self.current_batch_id` does not hold
HasBatchId(id) == Truthy(id)

\* variant of Dispatch: gather runs over self.categories
DispatchAll(cats, to_fetch) == cats

\* lines 123-125: the categories gather starts a fetch_category_stories for
Dispatch(cats, to_fetch) == to_fetch

\* line 129: `if stories:`
KeepsResult(stories) == stories # <<>>

\* line 133: the batch id save_stories is given is the one the result
\* tuple carries, the batchId of the get_stories response
SaveBatchId(result_batch_id, current) == result_batch_id

\* lines 128-133: the loop over the gathered results, from index i on.
\* outs[i] is how the i-th save_stories call ends.
RECURSIVE StoreResults(_, _, _, _, _, _)
StoreResults(res, outs, i, current, cycle_batch, acc) ==
    IF i > Len(res)
    THEN acc
    ELSE LET r == res[i]
             batch_id == SaveBatchId(r.batch_id, current)
         IN  StoreResults(res, outs, i + 1, current, cycle_batch,
                 IF KeepsResult(r.stories)
                 THEN [sbc |-> DictSet(acc.sbc, r.name, r.stories),
                       tags |-> TagSet(acc.tags, r.name, cycle_batch),
                       files |-> SaveStories(acc.files, r.name, batch_id,
                                             r.stories, outs[i]),
                       writes |-> Append(acc.writes,
                                    [category_id |-> r.name, batch_id |-> batch_id,
                                     outcome |-> outs[i]])]
                 ELSE acc)

\* Handler p moves to `at`.  The locals of a coroutine that has returned are
\* gone, and so is the record of its last cycle: they are forgotten when the
\* next handler starts.
Goes(p, at) ==
    [q \in Procs |-> IF q = p THEN at ELSE IF AtRest(q) THEN "idle" ELSE pc[q]]

Kept(f, p, empty) ==
    [q \in Procs |-> IF q = p \/ AtRest(q) THEN empty ELSE f[q]]

\* a handler starts, or ends, without entering _load_stories
NoCycle(p, at) ==
    /\ pc' = Goes(p, at)
    /\ categories_to_fetch' = Kept(categories_to_fetch, p, <<>>)
    /\ results' = Kept(results, p, <<>>)
    /\ resolved' = Kept(resolved, p, NoneVal)
    /\ cache0' = Kept(cache0, p, EmptyFiles)
    /\ lookups' = Kept(lookups, p, <<>>)
    /\ calls' = Kept(calls, p, <<>>)
    /\ writes' = Kept(writes, p, <<>>)
    /\ prunes' = Kept(prunes, p, <<>>)
    /\ prior' = Kept(prior, p, NoneVal)

\* _load_stories is entered with categories: line 77 awaits get_latest_batch
EnterLoadStories(p) ==
    /\ pc' = Goes(p, "get_latest_batch")
    /\ categories_to_fetch' = Kept(categories_to_fetch, p, <<>>)
    /\ results' = Kept(results, p, <<>>)
    /\ resolved' = Kept(resolved, p, NoneVal)
    /\ cache0' = [Kept(cache0, p, EmptyFiles) EXCEPT ![p] = cache]
    /\ lookups' = Kept(lookups, p, <<>>)
    /\ calls' = Kept(calls, p, <<>>)
    /\ writes' = Kept(writes, p, <<>>)
    /\ prunes' = Kept(prunes, p, <<>>)
    /\ prior' = [Kept(prior, p, NoneVal) EXCEPT ![p] =
                     IF \E q \in Procs : pc[q] = "done"
                     THEN resolved[CHOOSE q \in Procs : pc[q] = "done"]
                     ELSE NoneVal]


\* The handler of p once _load_stories is over.  "raised": the except
\* clauses (lines 184-189, 284-289, 364-369) call _show_error, which empties
\* the story list.  "no_batch": _load_stories called _show_error itself and
\* returned (lines 80-83).  After a return, on_mount and the reload show
\* the stories of the first category (lines 179-182, 357-362), action_refresh
\* those of the active tab (lines 273-282), looked up in `sbc`.
Finish(p, outcome, sbc) ==
    story_list' =
        IF outcome = "raised"
        THEN <<>>
        ELSE IF handler[p] = "action_refresh" /\ active # EmptyStr
        THEN DictGet(sbc, ActiveCategoryId(active), <<>>)
        ELSE IF handler[p] # "action_refresh" /\ categories # <<>>
        THEN DictGet(sbc, categories[1].name, <<>>)
        ELSE IF outcome = "no_batch"
        THEN <<>>
        ELSE story_list


\* -------------------------------------------------------------- MainScreen
\* what the categories endpoint lists: categories with distinct keys, in
\* the upstream's order
Listings ==
    {l \in UNION {[1..n -> CategoryKeys] : n \in 0..Cardinality(CategoryKeys)} :
        \A i, j \in DOMAIN l : l[i] = l[j] => i = j}

\* lines 160-162 and 338-340: the listed categories whose name is selected
RECURSIVE FilterSelected(_, _)
FilterSelected(all_categories, selected) ==
    IF all_categories = <<>>
    THEN <<>>
    ELSE LET rest == FilterSelected(Tail(all_categories), selected)
         IN  IF Head(all_categories).name \in selected
             THEN <<Head(all_categories)>> \o rest
             ELSE rest

\* on_mount, lines 141-157: the configuration is loaded; with no selection
\* the empty state is shown, otherwise get_categories is awaited
OnMount ==
    /\ pc["pump"] = "init"
    /\ LET loaded == Load(main_config, config_file)
           selected == Members(loaded.config.selected_categories)
       IN  /\ main_config' = loaded.cached
           /\ IF loaded.raised # ""
              THEN /\ NoCycle("pump", "error")
                   /\ story_list' = <<>>
                   /\ UNCHANGED selected_category_ids
              ELSE IF selected = {}
              THEN /\ NoCycle("pump", "idle")
                   /\ story_list' = <<>>
                   /\ UNCHANGED selected_category_ids
              ELSE /\ NoCycle("pump", "get_categories")
                   /\ selected_category_ids' =
                          [selected_category_ids EXCEPT !["pump"] = selected]
                   /\ UNCHANGED story_list
    /\ handler' = [handler EXCEPT !["pump"] = "on_mount"]
    /\ UNCHANGED <<screenVars, cache, upstream_batch, call, widgetVars,
                   config_file, active>>

\* _show_config_and_reload, lines 296-335.  The configuration screen, with
\* a ConfigManager of its own (config_screen.py line 81), saves the checked
\* categories or is dismissed without saving; after a save the main screen
\* calls load() on its own ConfigManager (line 308), clears its state and
\* its tabs (clear_panes leaves no active tab) and reloads.
ShowConfigAndReload ==
    /\ AtRest("worker")
    /\ AtRest("pump")
    /\ \E selected_ids \in Selections, save_ok \in BOOLEAN :
          LET saved == SaveConfig(config_file, selected_ids, save_ok)
              loaded == Load(main_config, saved.file)
              selected == Members(loaded.config.selected_categories)
          IN  /\ config_file' = saved.file
              /\ IF saved.result
                 THEN /\ main_config' = loaded.cached
                      /\ categories' = <<>>
                      /\ stories_by_category' = <<>>
                      /\ loaded_for' = [k \in {} |-> NoneVal]
                      /\ active' = EmptyStr
                      /\ tab_ids' = <<>>
                      /\ tab_to_category' = NoTabs
                      /\ IF selected = {}
                         THEN /\ NoCycle("worker", "idle")
                              /\ story_list' = <<>>
                              /\ UNCHANGED selected_category_ids
                         ELSE /\ NoCycle("worker", "get_categories")
                              /\ selected_category_ids' =
                                     [selected_category_ids EXCEPT
                                         !["worker"] = selected]
                              /\ UNCHANGED story_list
                 ELSE /\ NoCycle("worker", "idle")
                      /\ UNCHANGED <<categories, stories_by_category, loaded_for,
                                     selected_category_ids, main_config, uiVars,
                                     tabVars>>
    /\ handler' = [handler EXCEPT !["worker"] = "reload"]
    /\ UNCHANGED <<current_batch_id, cache, upstream_batch, call, listVars,
                   themeVars>>

\* get_categories raises: the except clauses of lines 184-189, 364-369
GetCategoriesRaises(p) ==
    /\ pc[p] = "get_categories"
    /\ pc' = [pc EXCEPT ![p] = "error"]
    /\ selected_category_ids' = [selected_category_ids EXCEPT ![p] = {}]
    /\ story_list' = <<>>
    /\ UNCHANGED <<screenVars, cache, upstream_batch, call, widgetVars,
                   categories_to_fetch,
                   results, cycleVars, configVars, active, handler>>

\* get_categories returns: lines 157-176 and 335-354, up to the first await
\* of _load_stories.  A tab is added for each category (add_tab); the tab
\* added first to a widget without tabs becomes the active one.
GetCategoriesReturns(p) ==
    /\ pc[p] = "get_categories"
    /\ \E listing \in Listings :
          LET all_categories ==
                  [i \in 1..Len(listing) |-> Category(listing[i])]
              filtered == FilterSelected(all_categories, selected_category_ids[p])
              tabs == AddTabs([tab_ids |-> tab_ids,
                               tab_to_category |-> tab_to_category], filtered)
          IN  /\ categories' = filtered
              /\ tab_ids' = tabs.tab_ids
              /\ tab_to_category' = tabs.tab_to_category
              /\ IF filtered = <<>>
                 THEN /\ NoCycle(p, "idle")
                      /\ story_list' = <<>>
                      /\ UNCHANGED active
                 ELSE /\ EnterLoadStories(p)
                      /\ active' = IF active = EmptyStr
                                    THEN TabId(filtered[1].name)
                                    ELSE active
                      /\ UNCHANGED story_list
    /\ selected_category_ids' = [selected_category_ids EXCEPT ![p] = {}]
    /\ UNCHANGED <<stories_by_category, current_batch_id, loaded_for, cache,
                   upstream_batch, call, configVars, handler, listVars, themeVars>>

\* variant of EarlyReturn: the test of line 68 comes after line 78
EarlyReturnLate(current, published) == published

\* lines 68-69: _load_stories returns before get_latest_batch is called,
\* self.current_batch_id keeps its value
EarlyReturn(current, published) == current

\* action_refresh, line 270, and lines 68-77 of _load_stories; after the
\* early return of line 69, lines 273-282
ActionRefresh ==
    /\ AtRest("pump")
    /\ handler' = [handler EXCEPT !["pump"] = "action_refresh"]
    /\ IF categories = <<>>
       THEN /\ NoCycle("pump", "skipped")
            /\ current_batch_id' = EarlyReturn(current_batch_id, upstream_batch)
            /\ story_list' = IF active # EmptyStr
                             THEN DictGet(stories_by_category,
                                          ActiveCategoryId(active), <<>>)
                             ELSE story_list
       ELSE /\ EnterLoadStories("pump")
            /\ UNCHANGED <<current_batch_id, story_list>>
    /\ UNCHANGED <<categories, stories_by_category, loaded_for, cache,
                   upstream_batch, call, selected_category_ids, configVars, active,
                   widgetVars>>

\* get_latest_batch raises (lines 76, 81-97 of client.py): the exception
\* leaves _load_stories at line 77
GetLatestBatchRaises(p) ==
    /\ pc[p] = "get_latest_batch"
    /\ pc' = [pc EXCEPT ![p] = "failed"]
    /\ Finish(p, "raised", stories_by_category)
    /\ UNCHANGED <<screenVars, cache, upstream_batch, call, widgetVars,
                   localVars,
                   cycleVars,
                   configVars, active, handler>>

\* clear_old_caches(None): `None not in cache_file.name` (manager.py 143)
\* raises TypeError for the first file of the directory, which the
\* `except OSError` of line 150 does not catch
PruneRaises(files, current) == current = NoneVal /\ DOMAIN files # {}

\* line 136, and line 139: _load_stories returns; or the prune raises and
\* the exception leaves _load_stories
PruneAndReturn(p, files, current, sbc) ==
    /\ cache' = IF PruneRaises(files, current)
                THEN files
                ELSE ClearOldCaches(files, current)
    /\ prunes' = [prunes EXCEPT ![p] = Append(@, current)]
    /\ pc' = [pc EXCEPT ![p] =
                 IF PruneRaises(files, current) THEN "failed" ELSE "done"]
    /\ Finish(p, IF PruneRaises(files, current) THEN "raised" ELSE "returned", sbc)

\* get_latest_batch returns, with the id of the published batch or with an
\* "id" that is "" or null: lines 78-83 then, else lines 78-125, the lookups
\* and the dispatch of the fetches, or lines 78-139 when nothing is to fetch
GetLatestBatchReturns(p) ==
    /\ pc[p] = "get_latest_batch"
    /\ \E id \in {upstream_batch, EmptyStr, NoneVal} :
          LET acc == Classify(categories, 1, id, cache,
                              [sbc |-> stories_by_category, to_fetch |-> <<>>,
                               lookups |-> <<>>, tags |-> loaded_for,
                               raised |-> FALSE])
              started == Dispatch(categories, acc.to_fetch)
          IN  /\ current_batch_id' = id
              /\ resolved' = [resolved EXCEPT ![p] = id]
              /\ IF ~HasBatchId(id)
                 THEN /\ pc' = [pc EXCEPT ![p] = "failed"]
                      /\ Finish(p, "no_batch", stories_by_category)
                      /\ UNCHANGED <<stories_by_category, loaded_for, lookups,
                                     categories_to_fetch, calls, results, cache,
                                     prunes>>
                 ELSE /\ stories_by_category' = acc.sbc
                      /\ loaded_for' = acc.tags
                      /\ lookups' = [lookups EXCEPT ![p] = acc.lookups]
                      /\ categories_to_fetch' =
                             [categories_to_fetch EXCEPT ![p] = acc.to_fetch]
                      /\ IF acc.raised
                         THEN /\ pc' = [pc EXCEPT ![p] = "failed"]
                              /\ Finish(p, "raised", acc.sbc)
                              /\ UNCHANGED <<calls, results, cache, prunes>>
                         ELSE IF acc.to_fetch # <<>>
                         THEN /\ calls' = [calls EXCEPT ![p] = started]
                              /\ results' = [results EXCEPT ![p] =
                                     [i \in 1..Len(started) |-> Pending(started[i])]]
                              /\ pc' = [pc EXCEPT ![p] = "gather"]
                              /\ UNCHANGED <<cache, prunes, story_list>>
                         ELSE /\ UNCHANGED <<calls, results>>
                              /\ PruneAndReturn(p, cache, id, acc.sbc)
    /\ UNCHANGED <<categories, upstream_batch, call, widgetVars,
                   selected_category_ids, cache0,
                   writes, prior, configVars, active, handler>>

\* one get_stories call returns (client.py 194-236): no story or MaxStories
\* stories, with the id of the batch then published or without a batchId
FetchReturns(p, i) ==
    /\ pc[p] = "gather"
    /\ results[p][i].kind = "pending"
    /\ \E n \in {0, MaxStories}, batch_id \in {upstream_batch, EmptyStr} :
          results' = [results EXCEPT ![p][i] =
              FetchResult(results[p][i], "ok",
                          UpstreamStories(results[p][i].id, n), batch_id)]
    /\ UNCHANGED <<screenVars, cache, upstream_batch, call, widgetVars, pc,
                   selected_category_ids,
                   categories_to_fetch, cycleVars, configVars, uiVars, handler>>

\* one get_stories call raises an APIError: lines 118-120
FetchApiError(p, i) ==
    /\ pc[p] = "gather"
    /\ results[p][i].kind = "pending"
    /\ results' = [results EXCEPT ![p][i] =
           FetchResult(results[p][i], "api_error", <<>>, EmptyStr)]
    /\ UNCHANGED <<screenVars, cache, upstream_batch, call, widgetVars, pc,
                   selected_category_ids,
                   categories_to_fetch, cycleVars, configVars, uiVars, handler>>

\* one get_stories call raises something that is no APIError (a response
\* body that is no JSON object: AttributeError at client.py 195 or 207):
\* neither line 118 nor gather holds it back, the exception leaves
\* _load_stories at line 123
FetchCrashes(p, i) ==
    /\ pc[p] = "gather"
    /\ results[p][i].kind = "pending"
    /\ results' = [results EXCEPT ![p][i].kind = "crashed"]
    /\ pc' = [pc EXCEPT ![p] = "failed"]
    /\ Finish(p, "raised", stories_by_category)
    /\ UNCHANGED <<screenVars, cache, upstream_batch, call, widgetVars,
                   selected_category_ids,
                   categories_to_fetch, cycleVars, configVars, active, handler>>

\* variant of AllSettled: gather never resumes
AllSettledNever(res) == FALSE

\* variant of AllSettled: gather does not wait for its coroutines
AllSettledAlways(res) == TRUE

\* line 123: `await asyncio.gather(...)` resumes once every
\* fetch_category_stories coroutine has returned
AllSettled(res) == \A i \in DOMAIN res : res[i].kind \in {"ok", "api_error"}

\* gather returns: lines 128-139
GatherReturns(p) ==
    /\ pc[p] = "gather"
    /\ AllSettled(results[p])
    /\ \E outs \in [DOMAIN results[p] -> SaveOutcomes] :
          /\ \A i \in DOMAIN outs :
                ~KeepsResult(results[p][i].stories) => outs[i] = "ok"
          /\ LET acc == StoreResults(results[p], outs, 1, current_batch_id,
                                     resolved[p],
                                     [sbc |-> stories_by_category,
                                      tags |-> loaded_for,
                                      files |-> cache, writes |-> <<>>])
             IN  /\ stories_by_category' = acc.sbc
                 /\ loaded_for' = acc.tags
                 /\ writes' = [writes EXCEPT ![p] = acc.writes]
                 /\ PruneAndReturn(p, acc.files, current_batch_id, acc.sbc)
    /\ UNCHANGED <<categories, current_batch_id, upstream_batch, call, widgetVars,
                   localVars,
                   resolved, cache0, lookups, calls, prior, configVars, active,
                   handler>>

\* the upstream publishes its next batch.  The program sees the published
\* batch only in the response to a call, so a publication is taken while a
\* call is awaited.
Publish ==
    /\ \E p \in Procs : ~AtRest(p) /\ pc[p] # "init"
    /\ \E i \in 1..(Len(Publications) - 1) :
          /\ upstream_batch = Publications[i]
          /\ upstream_batch' = Publications[i + 1]
    /\ UNCHANGED <<screenVars, cache, call, widgetVars, pc, localVars, cycleVars,
                   configVars,
                   uiVars, handler>>

\* one refresh cycle at a time: the refresh action is taken while the
\* reload worker is at rest
Next ==
    \/ OnMount
    \/ ShowConfigAndReload
    \/ (AtRest("worker") /\ ActionRefresh)
    \/ \E p \in Procs :
          \/ GetCategoriesRaises(p)
          \/ GetCategoriesReturns(p)
          \/ GetLatestBatchRaises(p)
          \/ GetLatestBatchReturns(p)
          \/ GatherReturns(p)
          \/ \E i \in DOMAIN results[p] :
                \/ FetchReturns(p, i)
                \/ FetchApiError(p, i)
                \/ FetchCrashes(p, i)
    \/ Publish

Spec == Init /\ [][Next]_vars

\* Every call of the APIClient is made with a timeout (client.py lines
\* 38-48, 10 seconds unless given): an awaited call returns or raises.  The
\* event loop resumes a coroutine whose await is over.
RemoteCallEnds(p) ==
    \/ GetCategoriesReturns(p)
    \/ GetCategoriesRaises(p)
    \/ GetLatestBatchReturns(p)
    \/ GetLatestBatchRaises(p)
    \/ \E i \in DOMAIN results[p] :
          \/ FetchReturns(p, i)
          \/ FetchApiError(p, i)
          \/ FetchCrashes(p, i)

Fairness ==
    \A p \in Procs : WF_vars(RemoteCallEnds(p)) /\ WF_vars(GatherReturns(p))

\* the application starts on a config.json that selects both categories
InitLive ==
    /\ InitScreen
    /\ config_file = SavedConfig(Config(<<Tech, SciFi>>, TextualDark))
    /\ app_theme = TextualDark

\* the screen is mounted and refreshed; the configuration stays as it is
NextLive ==
    \/ OnMount
    \/ ActionRefresh
    \/ \E p \in Procs :
          \/ GetCategoriesRaises(p)
          \/ GetCategoriesReturns(p)
          \/ GetLatestBatchRaises(p)
          \/ GetLatestBatchReturns(p)
          \/ GatherReturns(p)
          \/ \E i \in DOMAIN results[p] :
                \/ FetchReturns(p, i)
                \/ FetchApiError(p, i)
                \/ FetchCrashes(p, i)
    \/ Publish

SpecLive == InitLive /\ [][NextLive]_vars /\ Fairness

\* the screen has not been configured yet: no category, nothing cached
FirstConfiguration == categories = <<>> /\ cache = EmptyFiles

\* The refresh action is bound to a key of MainScreen and runs in the
\* message pump, _show_config_and_reload in a worker (line 294): once the
\* configuration screen is dismissed, a refresh may start while the worker
\* awaits get_categories or is inside _load_stories.  The interleavings
\* explored are those of refresh actions with the reload that follows the
\* first configuration, on a screen of at most MaxInterleavedCategories
\* categories.
NextInterleaved ==
    \/ OnMount
    \/ (FirstConfiguration /\ ShowConfigAndReload)
    \/ ActionRefresh
    \/ \E p \in Procs :
          \/ GetCategoriesRaises(p)
          \/ (GetCategoriesReturns(p) /\ Len(categories') <= MaxInterleavedCategories)
          \/ GetLatestBatchRaises(p)
          \/ GetLatestBatchReturns(p)
          \/ GatherReturns(p)
          \/ \E i \in DOMAIN results[p] :
                \/ FetchReturns(p, i)
                \/ FetchApiError(p, i)
                \/ FetchCrashes(p, i)
    \/ Publish

SpecInterleaved == Init /\ [][NextInterleaved]_vars


\* ---------------------------------------------- CacheManager, driven directly
\* A caller makes save_stories, get_cached_stories and clear_old_caches calls
\* in any order on one cache directory, with any arguments of the declared
\* types: category_id and batch_id are str, stories is list[Story].
TechUs == Tech \o <<"_", "u", "s">>
UsB1 == <<"u", "s", "_">> \o B1
CacheCategoryIds == {Tech, TechUs}
CacheBatchIds == {B1, UsB1}

\* the batch ids clear_old_caches is called with: those stories are stored
\* under, and one that nothing is stored under
PruneBatchIds == CacheBatchIds \cup {B2}

CachePaths == {GetCachePath(c, b) : c \in CacheCategoryIds, b \in CacheBatchIds}

\* Story(..., excerpt=excerpt)
WithExcerpt(story, excerpt) == [story EXCEPT !.excerpt = excerpt]

\* the story lists save_stories is called with
StoryLists ==
    {<<>>,
     UpstreamStories(RemoteId(Tech), MaxStories),
     <<WithExcerpt(Story(RemoteId(Tech), 1), <<"x">>)>>,
     <<WithExcerpt(Story(RemoteId(Tech), 1), EmptyStr)>>}

\* what the screen and its coroutines hold: untouched by these calls
screenState ==
    <<screenVars, upstream_batch, pc, localVars, cycleVars, configVars, uiVars,
      handler, widgetVars>>

CallSaveStories ==
    /\ \E c \in CacheCategoryIds, b \in CacheBatchIds, s \in StoryLists,
          outcome \in SaveOutcomes :
          /\ cache' = SaveStories(cache, c, b, s, outcome)
          /\ call' = [op |-> "save_stories", category_id |-> c, batch_id |-> b,
                      stories |-> s, outcome |-> outcome, removed |-> {}]
    /\ UNCHANGED screenState

CallGetCachedStories ==
    /\ \E c \in CacheCategoryIds, b \in CacheBatchIds :
          LET r == GetCachedStories(cache, c, b)
          IN  call' = [op |-> "get_cached_stories", category_id |-> c,
                       batch_id |-> b, stories |-> r.stories,
                       outcome |-> IF r.raised THEN "raised"
                                   ELSE IF r.found THEN "found" ELSE "none",
                       removed |-> {}]
    /\ UNCHANGED <<cache, screenState>>

\* clear_old_caches(b): the loop of lines 141-145 runs to its end, or an
\* unlink raises OSError (line 150) after some of the files were removed
CallClearOldCaches ==
    /\ \E b \in PruneBatchIds :
          \/ /\ cache' = ClearOldCaches(cache, b)
             /\ call' = [op |-> "clear_old_caches", category_id |-> EmptyStr,
                         batch_id |-> b, stories |-> <<>>, outcome |-> "ok",
                         removed |-> (DOMAIN cache) \ DOMAIN ClearOldCaches(cache, b)]
          \/ \E removed \in SUBSET OldCaches(cache, b) :
                /\ removed # OldCaches(cache, b)
                /\ cache' = Unlink(cache, removed)
                /\ call' = [op |-> "clear_old_caches", category_id |-> EmptyStr,
                            batch_id |-> b, stories |-> <<>>,
                            outcome |-> "unlink_failed", removed |-> removed]
    /\ UNCHANGED screenState

\* a file of the directory is damaged, or put there, by something else than
\* save_stories (an interrupted write, another program)
Damage ==
    /\ \E path \in CachePaths, kind \in DamageKinds :
          cache' = WriteFile(cache, path, DamagedFile(kind))
    /\ call' = [NoCall EXCEPT !.op = "damage"]
    /\ UNCHANGED screenState

\* the first story record of an entry loses a required key
DamageStory ==
    /\ \E path \in DOMAIN cache :
          /\ cache[path].kind = "object"
          /\ cache[path].stories # <<>>
          /\ Validates(cache[path].stories[1])
          /\ cache' = [cache EXCEPT ![path].stories[1] = Truncated(@)]
    /\ call' = [NoCall EXCEPT !.op = "damage"]
    /\ UNCHANGED screenState

NextCache ==
    \/ CallSaveStories
    \/ CallGetCachedStories
    \/ CallClearOldCaches
    \/ Damage
    \/ DamageStory

\* no config.json: these calls do not read it
InitDirect ==
    /\ InitScreen
    /\ config_file = MissingConfig
    /\ app_theme = TextualDark

SpecCache == InitDirect /\ [][NextCache]_vars


\* ------------------------------------------------- APIClient, driven directly
\* the bodies the upstream answers with.  A text field is left out, null,
\* empty or given.
Texts(s) == {Absent, JNull, JStr(EmptyStr), JStr(s)}

\* what stands in a list where an object is expected
NotObjects == {JNull, JStr(<<"x">>)}

Article(link) ==
    Obj([link |-> JStr(link), domain |-> JStr(<<"s">>), date |-> JStr(IsoDate)])

Articles ==
    {Obj([link |-> l, domain |-> d, date |-> t]) :
        l \in {JNull, JStr(EmptyStr), JStr(<<"u">>)},
        d \in {JStr(EmptyStr), JStr(<<"s">>)},
        t \in {Absent, JStr(IsoDate), JStr(<<"x">>)}}

\* the values of the key "articles" of a cluster
ArticleLists ==
    {Absent, JNull, JList(<<>>), JStr(<<"a", "b">>), JInt(<<"5">>),
     Obj([a |-> JNull]), JList(<<JNull>>),
     JList(<<Article(<<"u">>), Article(<<"v">>)>>)}
        \cup {JList(<<a>>) : a \in Articles}

\* "id" and "cluster_number" of a cluster
ClusterIds ==
    {<<Absent, Absent>>, <<Absent, JInt(<<"7">>)>>, <<JNull, Absent>>,
     <<JStr(EmptyStr), Absent>>, <<JStr(<<"1">>), Absent>>}

Clusters ==
    {Obj([id |-> i[1], cluster_number |-> i[2], title |-> t, articles |-> a,
          short_summary |-> e]) :
        i \in ClusterIds,
        t \in {Absent, JStr(EmptyStr), JStr(<<"t">>)},
        a \in ArticleLists,
        e \in {Absent, JStr(<<"e">>)}}

\* a cluster with everything in place
Cluster(id) ==
    Obj([id |-> JStr(id), title |-> JStr(<<"t">>),
         articles |-> JList(<<Article(id)>>)])

\* the elements of the two-element lists
PairedClusters ==
    {Cluster(<<"1">>), Cluster(<<"2">>),
     Obj([id |-> JStr(<<"3">>), title |-> JStr(<<"t">>), articles |-> JList(<<>>)]),
     Obj([id |-> JStr(<<"4">>), title |-> JStr(<<"t">>),
          articles |-> JList(<<Obj([link |-> JStr(<<"u">>),
                                    domain |-> JStr(<<"s">>)])>>)]),
     JNull}

StoriesData ==
    {<<>>} \cup {<<c>> : c \in Clusters \cup NotObjects}
           \cup {<<c, d>> : c \in PairedClusters, d \in PairedClusters}

StoriesBodies ==
    {Obj([batchId |-> JStr(B1), stories |-> JList(s)]) : s \in StoriesData}
        \cup {Obj([stories |-> JList(<<Cluster(<<"1">>)>>)]),
              Obj([batchId |-> JStr(B1)]),
              Obj([batchId |-> JStr(B1), stories |-> JNull]),
              JList(<<>>)}

CategoryElements ==
    {Obj([id |-> i, categoryId |-> k, categoryName |-> n]) :
        i \in Texts(RemoteId(Tech)), k \in Texts(Tech),
        n \in {Absent, JStr(<<"T">>)}}
        \cup {Obj([id |-> JStr(RemoteId(SciFi)), categoryId |-> JStr(SciFi),
                   categoryName |-> JStr(<<"S">>)])}
        \cup NotObjects

CategoriesData ==
    {<<>>} \cup {<<c>> : c \in CategoryElements}
           \cup {<<c, d>> : c \in CategoryElements, d \in CategoryElements}

CategoriesBodies ==
    {Obj([categories |-> JList(c)]) : c \in CategoriesData}
        \cup {Obj([categories |-> JNull]), Obj([other |-> JNull]), JList(<<>>)}

\* the limits get_stories is called with
Limits == (-2..3) \cup (98..102) \cup {12, 500}

\* get_stories(category_id, limit): the request carries the clamped limit,
\* the response body is parsed
CallGetStories ==
    /\ call = NoCall
    /\ \E limit \in Limits, data \in StoriesBodies :
          LET r == GetStories(data)
          IN  call' = [op |-> "get_stories", limit |-> limit,
                       sent |-> ClampLimit(limit), data |-> data,
                       raised |-> r.raised, items |-> r.items,
                       batch_id |-> r.batch_id]
    /\ UNCHANGED <<cache, screenState>>

CallGetCategories ==
    /\ call = NoCall
    /\ \E data \in CategoriesBodies :
          LET r == GetCategories(data)
          IN  call' = [op |-> "get_categories", data |-> data,
                       raised |-> r.raised, items |-> r.items]
    /\ UNCHANGED <<cache, screenState>>

\* the caller has taken what the call gave
ResultTaken ==
    /\ call.op \in {"get_stories", "get_categories"}
    /\ call' = NoCall
    /\ UNCHANGED <<cache, screenState>>

NextClient ==
    \/ CallGetStories
    \/ CallGetCategories
    \/ ResultTaken

SpecClient == InitDirect /\ [][NextClient]_vars


\* ------------------------------------------- ConfigManager, driven directly
\* One ConfigManager, whose _config is main_config, on a config.json that
\* the program or anything else may have written.
ConfigBodies ==
    {JNull, JList(<<>>), JStr(<<"x">>), JInt(<<"3">>)}
        \cup {Obj([selected_categories |-> selected, theme |-> theme]) :
                 selected \in {Absent, JNull, JStr(Tech), JList(<<>>),
                               JList(<<JStr(Tech)>>),
                               JList(<<JStr(Tech), JStr(SciFi)>>),
                               JList(<<JInt(<<"1">>), JNull>>)},
                 theme \in {Absent, JStr(Nord), JInt(<<"3">>)}}

ConfigFiles ==
    {MissingConfig}
        \cup {ConfigFile(kind, JNull) :
                 kind \in {"unreadable", "undecodable", "invalid_json", "too_deep"}}
        \cup {ConfigFile("json", data) : data \in ConfigBodies}

\* the configs save() is called with
Configs ==
    {Config(selected, theme) :
        selected \in Selections \cup {<<>>}, theme \in {TextualDark, Nord}}

\* what the screen, the cache and the coroutines hold: untouched here
restState ==
    <<screenVars, cache, upstream_batch, pc, localVars, cycleVars, uiVars, handler,
      widgetVars>>

\* ConfigManager(): _config is None, line 31
NewConfigManager ==
    /\ main_config' = NoConfig
    /\ call' = [op |-> "ConfigManager"]
    /\ UNCHANGED <<config_file, restState>>

CallLoad ==
    /\ LET loaded == Load(main_config, config_file)
       IN  /\ main_config' = loaded.cached
           /\ call' = [op |-> "load", file |-> config_file, cached |-> main_config,
                       raised |-> loaded.raised, config |-> loaded.config]
    /\ UNCHANGED <<config_file, restState>>

\* save(config), lines 83-97: the file is written and _config set, or
\* open() raises OSError, which save raises again
CallSave ==
    /\ \E config \in Configs, save_ok \in BOOLEAN :
          IF save_ok
          THEN /\ config_file' = SavedConfig(config)
               /\ main_config' = <<config>>
               /\ call' = [op |-> "save", config |-> config, raised |-> ""]
          ELSE /\ call' = [op |-> "save", config |-> config, raised |-> "OSError"]
               /\ UNCHANGED configVars
    /\ UNCHANGED restState

\* config.json is written, or removed, by something else than save()
WriteConfigFile ==
    /\ \E file \in ConfigFiles : config_file' = file
    /\ call' = [op |-> "write"]
    /\ UNCHANGED <<main_config, restState>>

NextConfig ==
    \/ NewConfigManager
    \/ CallLoad
    \/ CallSave
    \/ WriteConfigFile

SpecConfig == InitDirect /\ [][NextConfig]_vars


\* --------------------------------------------- CategoryTabs, driven directly
\* One CategoryTabs widget.  The screen adds a tab for each of its
\* categories (main_screen.py lines 168-170), the user moves between the
\* tabs, a reload removes them (lines 314-322).  `categories` holds the
\* categories tabs were added for, `call` the last action with what it posted.
SciFiUnderscore == <<"s", "c", "i", "_", "f", "i">>

World == <<"w", "o", "r", "l", "d">>

\* names the categories endpoint may list: all distinct
TabNames == {Tech, World, SciFi, SciFiUnderscore}

\* list.index(x), counted from 0; -1 stands for the ValueError of a value
\* the list does not hold
ListIndex(list, x) ==
    IF \E i \in DOMAIN list : list[i] = x
    THEN (CHOOSE i \in DOMAIN list :
              list[i] = x /\ \A j \in 1..(i - 1) : list[j] # x) - 1
    ELSE -1

\* action_next_tab, lines 80-89: a tab that is not found counts as -1
NextIndex(ids, current_id) == (ListIndex(ids, current_id) + 1) % Len(ids)

\* action_previous_tab, lines 105-114: a tab that is not found counts as 0
PreviousIndex(ids, current_id) ==
    LET current_index ==
            IF ListIndex(ids, current_id) = -1 THEN 0 ELSE ListIndex(ids, current_id)
    IN  (current_index - 1) % Len(ids)

\* _tab_to_category.get(tab_id, tab_id)
CategoryOfTab(map, tab_id) ==
    IF tab_id \in DOMAIN map THEN map[tab_id] ELSE tab_id

\* what the tabs do not touch
tabsRest ==
    <<stories_by_category, current_batch_id, loaded_for, cache, upstream_batch,
      pc, localVars, cycleVars, configVars, story_list, handler, listVars,
      themeVars>>

\* add_tab(category) for a category the screen has no tab for yet; the tab
\* added first to a widget without tabs becomes the active one
CallAddTab ==
    /\ Len(categories) < Cardinality(TabNames)
    /\ \E name \in TabNames :
          /\ \A i \in DOMAIN categories : categories[i].name # name
          /\ LET tabs == AddTab([tab_ids |-> tab_ids,
                                 tab_to_category |-> tab_to_category], name)
             IN  /\ tab_ids' = tabs.tab_ids
                 /\ tab_to_category' = tabs.tab_to_category
          /\ categories' = Append(categories, Category(name))
          /\ active' = IF active = EmptyStr THEN TabId(name) ELSE active
          /\ call' = [op |-> "add_tab", name |-> name]
    /\ UNCHANGED tabsRest

\* action_next_tab, lines 74-97
ActionNextTab ==
    /\ IF tab_ids = <<>>
       THEN /\ call' = [op |-> "action_next_tab", before |-> active,
                        position |-> -1, posted |-> <<>>]
            /\ UNCHANGED active
       ELSE LET next_index == NextIndex(tab_ids, active)
                next_id == tab_ids[next_index + 1]
            IN  /\ active' = next_id
                /\ call' = [op |-> "action_next_tab", before |-> active,
                            position |-> next_index,
                            posted |-> <<CategoryOfTab(tab_to_category, next_id)>>]
    /\ UNCHANGED <<categories, tabVars, tabsRest>>

\* action_previous_tab, lines 99-122
ActionPreviousTab ==
    /\ IF tab_ids = <<>>
       THEN /\ call' = [op |-> "action_previous_tab", before |-> active,
                        position |-> -1, posted |-> <<>>]
            /\ UNCHANGED active
       ELSE LET prev_index == PreviousIndex(tab_ids, active)
                prev_id == tab_ids[prev_index + 1]
            IN  /\ active' = prev_id
                /\ call' = [op |-> "action_previous_tab", before |-> active,
                            position |-> prev_index,
                            posted |-> <<CategoryOfTab(tab_to_category, prev_id)>>]
    /\ UNCHANGED <<categories, tabVars, tabsRest>>

\* the reload of main_screen.py lines 311-322 removes the tabs
ClearTabs ==
    /\ tab_ids # <<>>
    /\ tab_ids' = <<>>
    /\ tab_to_category' = NoTabs
    /\ categories' = <<>>
    /\ active' = EmptyStr
    /\ call' = [op |-> "clear_panes"]
    /\ UNCHANGED tabsRest

NextTabs ==
    \/ CallAddTab
    \/ ActionNextTab
    \/ ActionPreviousTab
    \/ ClearTabs

SpecTabs == InitDirect /\ [][NextTabs]_vars


\* ------------------------------------------------ StoryList, driven directly
\* One StoryList widget: the screen sets its stories, the user moves the
\* highlight and toggles the highlighted story.  `story_list` is
\* self._stories, `call` the last action.
MaxListed == 3

\* a story as get_stories builds it (client.py lines 215-226): its id is the
\* cluster's id, or "unknown" for a cluster that has neither id nor
\* cluster_number
ListedStory(id, title) ==
    [id |-> id, title |-> title, url |-> <<"u">>, source |-> <<"s">>,
     published_at |-> IsoDate, excerpt |-> NoneVal]

ListedIds == {Unknown, <<"7">>}

\* the lists set_stories is called with
ListedStories ==
    {[i \in DOMAIN ids |-> ListedStory(ids[i], <<"t", ids[i][1]>>)] :
        ids \in UNION {[1..n -> ListedIds] : n \in 0..MaxListed}}

\* line 60: is_expanded = story.id in self._expanded_stories
IsExpanded(story, expanded) == story.id \in expanded

\* lines 121-124
Toggled(expanded, story) ==
    IF story.id \in expanded
    THEN expanded \ {story.id}
    ELSE expanded \cup {story.id}

\* what the list does not touch
listRest ==
    <<screenVars, cache, upstream_batch, pc, localVars, cycleVars, configVars,
      active, handler, tabVars, themeVars>>

\* set_stories(stories), lines 27-48; ListView.clear() leaves nothing
\* highlighted
CallSetStories ==
    /\ \E stories \in ListedStories :
          /\ story_list' = stories
          /\ call' = [op |-> "set_stories"]
    /\ expanded_stories' = {}
    /\ index' = NoIndex
    /\ UNCHANGED listRest

\* the user moves the highlight to an item of the list; an empty list shows
\* one item, "No stories available" (lines 39-43)
MoveHighlight ==
    /\ \E i \in 0..(IF story_list = <<>> THEN 0 ELSE Len(story_list) - 1) :
          /\ index # <<i>>
          /\ index' = <<i>>
    /\ call' = [op |-> "highlight"]
    /\ UNCHANGED <<story_list, expanded_stories, listRest>>

\* action_toggle_story, lines 108-127, with _refresh_story_item, which
\* rebuilds the items and restores the highlight (lines 140-148)
ActionToggleStory ==
    /\ IF story_list = <<>> \/ index = NoIndex \/ index[1] >= Len(story_list)
       THEN UNCHANGED expanded_stories
       ELSE expanded_stories' = Toggled(expanded_stories, story_list[index[1] + 1])
    /\ call' = [op |-> "action_toggle_story", before |-> expanded_stories]
    /\ UNCHANGED <<story_list, index, listRest>>

NextList ==
    \/ CallSetStories
    \/ MoveHighlight
    \/ ActionToggleStory

SpecList == InitDirect /\ [][NextList]_vars


\* --------------------------------------------- ConfigScreen and the app theme
\* The configuration screen is pushed on the main screen, the user previews
\* themes in its Select, and saves or cancels.  `call` is the last handler.
\* what the configuration screen does not touch
themeRest ==
    <<screenVars, cache, upstream_batch, pc, localVars, cycleVars, main_config,
      uiVars, handler, tabVars, listVars>>

\* push_screen_wait(ConfigScreen()), main_screen.py line 301: __init__, compose
\* (the Select shows "textual-dark", line 125) and on_mount up to the await
\* of get_categories
PushConfigScreen ==
    /\ config_screen.pc = "closed"
    /\ config_screen' = [NoScreen EXCEPT !.pc = "loading",
                                         !.theme_at_open = app_theme]
    /\ call' = [op |-> "push_screen"]
    /\ UNCHANGED <<app_theme, config_file, themeRest>>

\* get_categories raises: on_mount lines 202-209, nothing else is set
ConfigCategoriesRaise ==
    /\ config_screen.pc = "loading"
    /\ config_screen' = [config_screen EXCEPT !.pc = "failed"]
    /\ call' = [op |-> "on_mount"]
    /\ UNCHANGED <<app_theme, config_file, themeRest>>

\* get_categories returns: on_mount lines 144-200.  Setting the value of
\* the Select (line 155) to another theme than it shows may make it post
\* Select.Changed, which on_select_changed answers by applying the theme.
ConfigCategoriesReturn ==
    /\ config_screen.pc = "loading"
    /\ LET loaded == Load(config_screen.config, config_file)
           current_theme == loaded.config.theme
       IN  IF loaded.raised # ""
           THEN /\ config_screen' = [config_screen EXCEPT !.pc = "failed"]
                /\ UNCHANGED app_theme
           ELSE /\ config_screen' =
                       [config_screen EXCEPT
                           !.pc = "ready",
                           !.config = loaded.cached,
                           !.original_theme = current_theme,
                           !.theme_select = IF current_theme \in AvailableThemes
                                            THEN current_theme
                                            ELSE @]
                /\ \E posted \in BOOLEAN :
                      IF /\ posted
                         /\ current_theme \in AvailableThemes
                         /\ current_theme # config_screen.theme_select
                      THEN app_theme' = ApplyTheme(current_theme)
                      ELSE UNCHANGED app_theme
    /\ call' = [op |-> "on_mount"]
    /\ UNCHANGED <<config_file, themeRest>>

\* the user picks another theme in the Select: on_select_changed, lines
\* 273-285
PreviewTheme ==
    /\ config_screen.pc # "closed"
    /\ \E theme_name \in AvailableThemes :
          /\ theme_name # config_screen.theme_select
          /\ config_screen' = [config_screen EXCEPT !.theme_select = theme_name]
          /\ app_theme' = ApplyTheme(theme_name)
    /\ call' = [op |-> "on_select_changed"]
    /\ UNCHANGED <<config_file, themeRest>>

\* _cancel, line 259: the theme is applied if _original_theme is truthy
Restored(original_theme, current) ==
    IF Truthy(original_theme) THEN ApplyTheme(original_theme) ELSE current

\* _cancel, lines 254-263
Cancel ==
    /\ config_screen.pc # "closed"
    /\ app_theme' = Restored(config_screen.original_theme, app_theme)
    /\ config_screen' = NoScreen
    /\ call' = [op |-> "_cancel"]
    /\ UNCHANGED <<config_file, themeRest>>

\* _save_config, lines 222-252: the checked categories (those of the
\* loaded configuration, the user changes no checkbox here; no checkbox
\* exists before on_mount made them) and the theme of the Select are saved.
\* The main screen then reloads (main_screen.py lines 304-369) and leaves
\* the theme as it is.
SaveFromScreen ==
    /\ config_screen.pc # "closed"
    /\ \E save_ok \in BOOLEAN :
          LET loaded == Load(config_screen.config, config_file)
              selected_ids == IF config_screen.pc = "ready"
                              THEN loaded.config.selected_categories
                              ELSE <<>>
          IN  IF loaded.raised = "" /\ save_ok
              THEN config_file' =
                       SavedConfig(Config(selected_ids, config_screen.theme_select))
              ELSE UNCHANGED config_file
    /\ config_screen' = NoScreen
    /\ call' = [op |-> "_save_config"]
    /\ UNCHANGED <<app_theme, themeRest>>

NextTheme ==
    \/ PushConfigScreen
    \/ ConfigCategoriesRaise
    \/ ConfigCategoriesReturn
    \/ PreviewTheme
    \/ Cancel
    \/ SaveFromScreen

\* KagiNewsApp.on_mount, app.py lines 53-59: the theme of config.json is
\* applied before the main screen is pushed
InitTheme ==
    /\ InitScreen
    /\ config_file \in
          {MissingConfig} \cup {SavedConfig(Config(<<Tech>>, theme_name)) :
                                  theme_name \in {Nord, Sepia}}
    /\ app_theme = ApplyTheme(Load(NoConfig, config_file).config.theme)

SpecTheme == InitTheme /\ [][NextTheme]_vars


\* -------------------------------------------------------------- properties
\* how many get_stories calls cycle p made for the category `name`
CallsFor(p, name) == Cardinality({i \in DOMAIN calls[p] : calls[p][i].name = name})

\* the cycle of p is past the resolution of its batch
Resolving(p) == pc[p] \in {"gather", "done", "failed"}

\* cycle p re-runs, by a refresh, a completed cycle that resolved the same
\* batch, and the upstream has published nothing since
Rerun(p) ==
    /\ pc[p] = "done"
    /\ Truthy(prior[p])
    /\ resolved[p] = prior[p]
    /\ upstream_batch = resolved[p]

C2_StoredUnderResolved ==
    \A p \in Procs :
        pc[p] = "done" =>
            \A i \in DOMAIN results[p] :
                (results[p][i].kind = "ok" /\ results[p][i].stories # <<>>) =>
                    \E w \in DOMAIN writes[p] :
                        /\ writes[p][w].category_id = results[p][i].name
                        /\ writes[p][w].batch_id = resolved[p]

\* C3 as stated: after a completed cycle that resolved batch b, the mapping
\* of every selected category is empty or was assigned by a cycle that
\* resolved b.
C3_NoStaleStories ==
    \A p \in Procs :
        pc[p] = "done" =>
            \A i \in DOMAIN categories :
                LET name == categories[i].name
                IN  DictHas(stories_by_category, name) =>
                        \/ DictGet(stories_by_category, name, <<>>) = <<>>
                        \/ loaded_for[name] = resolved[p]

\* C4 as stated: after a completed cycle, every category whose fetch failed
\* maps to an empty story list.
C4_FailedMapsToEmpty ==
    \A p \in Procs :
        pc[p] = "done" =>
            \A i \in DOMAIN results[p] :
                results[p][i].kind = "api_error" =>
                    DictGet(stories_by_category, results[p][i].name, <<>>) = <<>>

\* C5 as stated: after a completed cycle that resolved batch b, no cache
\* entry tagged with a batch id other than b remains.
C5_OnlyCurrentBatchRemains ==
    \A p \in Procs :
        pc[p] = "done" =>
            \A f \in DOMAIN cache : cache[f].batch_id = resolved[p]

\* C6 as stated: a cycle in which the fetch of one category fails does not
\* fail as a whole, every category whose fetch succeeded has its own stories
\* in the mapping and in the cache under the resolved batch, and the failed
\* category does not hold another category's stories.
C6_PartialFailure ==
    \A p \in Procs :
        (/\ pc[p] \in {"done", "failed"}
         /\ \E i \in DOMAIN results[p] : results[p][i].kind \in {"api_error", "crashed"})
        =>  /\ pc[p] = "done"
            /\ \A i \in DOMAIN results[p] :
                  LET r == results[p][i]
                      path == GetCachePath(r.name, resolved[p])
                  IN  /\ (r.kind = "ok" /\ r.stories # <<>>) =>
                            /\ DictGet(stories_by_category, r.name, <<>>) = r.stories
                            /\ (\A w \in DOMAIN writes[p] :
                                   writes[p][w].outcome = "ok") =>
                                  /\ path \in DOMAIN cache
                                  /\ cache[path] = CacheFile(r.name, resolved[p], r.stories)
                      /\ r.kind # "ok" =>
                            \A k \in DOMAIN DictGet(stories_by_category, r.name, <<>>) :
                                DictGet(stories_by_category, r.name, <<>>)[k].title = r.id

\* C7: a cycle whose batch resolution gave no usable id has ended as failed,
\* with no cache lookup, no get_stories call, no cache write and no prune,
\* and the cache is as it was when the cycle began.
C7_ResolveFailureDoesNothing ==
    \A p \in Procs :
        (Resolving(p) /\ ~Truthy(resolved[p])) =>
            /\ pc[p] = "failed"
            /\ lookups[p] = <<>>
            /\ calls[p] = <<>>
            /\ writes[p] = <<>>
            /\ prunes[p] = <<>>
            /\ cache = cache0[p]

\* a cycle that failed on an empty batch id, over a cache that holds entries
C7_Witness ==
    \E p \in Procs :
        /\ pc[p] = "failed"
        /\ resolved[p] = EmptyStr
        /\ DOMAIN cache # {}

\* C8: in one cycle every selected category is looked up once, and
\* get_stories is called exactly once for each category whose lookup was
\* absent and not at all for each whose lookup was a hit.
C8_OneFetchPerMiss ==
    \A p \in Procs :
        (Resolving(p) /\ Truthy(resolved[p])) =>
            /\ Len(lookups[p]) = Len(categories)
            /\ \A i \in DOMAIN lookups[p] :
                  /\ lookups[p][i].category_id = categories[i].name
                  /\ lookups[p][i].batch_id = resolved[p]
                  /\ CallsFor(p, categories[i].name) =
                         IF lookups[p][i].found THEN 0 ELSE 1

\* a completed cycle with one cache hit and one fetched category
C8_Witness ==
    \E p \in Procs :
        /\ pc[p] = "done"
        /\ \E i, j \in DOMAIN lookups[p] :
              /\ lookups[p][i].found
              /\ ~lookups[p][j].found
              /\ CallsFor(p, lookups[p][j].category_id) = 1

\* C9 as stated: after a completed cycle the keys of the mapping are in the
\* order of the selected categories.
C9_MappingInCallerOrder ==
    \A p \in Procs :
        pc[p] = "done" =>
            \A i, j \in DOMAIN stories_by_category :
                i < j =>
                    \A a, b \in DOMAIN categories :
                        (/\ categories[a].name = stories_by_category[i].key
                         /\ categories[b].name = stories_by_category[j].key)
                        => a < b

\* the cache of the scenario: one entry for tech and one for science, both
\* tagged b1
ScenarioStart(files) ==
    /\ DOMAIN files = {GetCachePath(Tech, B1), GetCachePath(SciFi, B1)}
    /\ \A f \in DOMAIN files : files[f].kind = "object" /\ files[f].batch_id = B1

\* cycle p is the refresh of the scenario: both categories selected, b2
\* resolved, over the cache of the scenario
Scenario(p) ==
    /\ pc[p] = "done"
    /\ resolved[p] = B2
    /\ ScenarioStart(cache0[p])
    /\ {categories[i].name : i \in DOMAIN categories} = {Tech, SciFi}

\* the upstream served the scenario's refresh: each get_stories call returned
\* stories and each cache write succeeded
ScenarioServed(p) ==
    /\ \A i \in DOMAIN results[p] :
          /\ results[p][i].kind = "ok"
          /\ results[p][i].stories # <<>>
    /\ \A w \in DOMAIN writes[p] : writes[p][w].outcome = "ok"

\* C10 as stated: from a cache holding entries for tech and science tagged
\* b1, a served refresh that resolves b2 with both categories selected calls
\* get_stories once for each, writes an entry tagged b2 for each and removes
\* both b1 entries, so that the cache ends with exactly the two entries
\* (tech, b2) and (science, b2).
C10_BatchChangeScenario ==
    \A p \in Procs :
        (Scenario(p) /\ ScenarioServed(p)) =>
            /\ CallsFor(p, Tech) = 1
            /\ CallsFor(p, SciFi) = 1
            /\ \A name \in {Tech, SciFi} :
                  \E w \in DOMAIN writes[p] :
                      /\ writes[p][w].category_id = name
                      /\ writes[p][w].batch_id = B2
            /\ DOMAIN cache = {GetCachePath(Tech, B2), GetCachePath(SciFi, B2)}
            /\ \A f \in DOMAIN cache : cache[f].batch_id = B2

\* the file a call of the directly driven CacheManager addressed
CalledPath == GetCachePath(call.category_id, call.batch_id)

\* a file save_stories wrote for batch b
Tagged(file, b) == file.kind = "object" /\ file.batch_id = b

\* C12: a clear_old_caches(b) call, complete or cut short by a failing
\* unlink, and whatever save_stories and clear_old_caches calls came before
\* it, leaves every cache entry tagged b in place with its contents.
C12_PruneKeepsCurrentBatch ==
    [][call'.op = "clear_old_caches" =>
          \A f \in DOMAIN cache :
              Tagged(cache[f], call'.batch_id) =>
                  f \in DOMAIN cache' /\ cache'[f] = cache[f]]_vars

\* a clear_old_caches(b) that removed a file and met an entry tagged b
C12_Witness ==
    /\ call.op = "clear_old_caches"
    /\ call.removed # {}
    /\ \E f \in DOMAIN cache : Tagged(cache[f], call.batch_id)

\* C13 as stated: the entry get_cached_stories(c, b) returns was stored by
\* save_stories under the same pair (c, b).
C13_DistinctPairsDistinctEntries ==
    (call.op = "get_cached_stories" /\ call.outcome = "found"
        /\ cache[CalledPath].kind = "object") =>
        /\ cache[CalledPath].category_id = call.category_id
        /\ cache[CalledPath].batch_id = call.batch_id

C16_DamagedIsAbsent ==
    (call.op = "get_cached_stories" /\ CalledPath \in DOMAIN cache
        /\ cache[CalledPath].kind \in DamageKinds) =>
        call.outcome = "none"

\* C11 as stated: a completed cycle made all its cache lookups, its
\* write-backs and its prune with the batch id it resolved, also when
\* another cycle ran interleaved with it and resolved a usable batch id of
\* its own.  Stated for the cycles whose get_stories responses reported the
\* batch the cycle resolved.
C11_CycleKeepsItsBatch ==
    \A p \in Procs :
        (/\ pc[p] = "done"
         /\ Truthy(current_batch_id)
         /\ \A i \in DOMAIN results[p] :
               KeepsResult(results[p][i].stories) =>
                   results[p][i].batch_id = resolved[p])
        =>  /\ \A i \in DOMAIN lookups[p] : lookups[p][i].batch_id = resolved[p]
            /\ \A i \in DOMAIN writes[p] : writes[p][i].batch_id = resolved[p]
            /\ \A i \in DOMAIN prunes[p] : prunes[p][i] = resolved[p]

\* what the caller of _load_stories finds for a category once the cycle has
\* returned: _load_stories returns None (line 139), the failure of a fetch
\* is logged (line 119) and leaves nothing but the mapping
Observed(name) ==
    [has_key |-> DictHas(stories_by_category, name),
     stories |-> DictGet(stories_by_category, name, <<>>)]

\* C17 as stated: after a completed cycle the caller can tell a category
\* whose fetch failed from a category whose fetch succeeded with no story.
C17_FailureIsTold ==
    \A p \in Procs :
        pc[p] = "done" =>
            \A i, j \in DOMAIN results[p] :
                (/\ results[p][i].kind = "api_error"
                 /\ results[p][j].kind = "ok"
                 /\ results[p][j].stories = <<>>)
                => Observed(results[p][i].name) # Observed(results[p][j].name)

\* C18: a cycle in which a save_stories call could not write has completed,
\* and the mapping holds the fetched stories of the category of that call.
C18_SaveFailureIsSwallowed ==
    \A p \in Procs :
        \A w \in DOMAIN writes[p] :
            writes[p][w].outcome # "ok" =>
                /\ pc[p] = "done"
                /\ \E i \in DOMAIN results[p] :
                      /\ results[p][i].name = writes[p][w].category_id
                      /\ results[p][i].stories # <<>>
                      /\ DictGet(stories_by_category, results[p][i].name, <<>>)
                             = results[p][i].stories

\* a completed cycle in which a write failed, the cache holding no entry for
\* that category under the batch of the write
C18_Witness ==
    \E p \in Procs :
        /\ pc[p] = "done"
        /\ \E w \in DOMAIN writes[p] :
              /\ writes[p][w].outcome = "open_failed"
              /\ GetCachePath(writes[p][w].category_id, writes[p][w].batch_id)
                     \notin DOMAIN cache
              /\ DictGet(stories_by_category, writes[p][w].category_id, <<>>) # <<>>

\* C19: within a cycle, lookups are made only once the batch is resolved;
\* get_stories is called only once every selected category was looked up;
\* while a fetch is awaited nothing is written or pruned; a write-back or a
\* prune is made only once every dispatched fetch has settled, and the
\* prune only once every fetched category with stories had its write-back.
C19_StepsInOrder ==
    \A p \in Procs :
        /\ lookups[p] # <<>> => Truthy(resolved[p])
        /\ calls[p] # <<>> =>
              /\ Len(lookups[p]) = Len(categories)
              /\ \A i \in DOMAIN calls[p] :
                    \E k \in DOMAIN lookups[p] :
                        /\ lookups[p][k].category_id = calls[p][i].name
                        /\ ~lookups[p][k].found
        /\ pc[p] = "gather" => writes[p] = <<>> /\ prunes[p] = <<>>
        /\ (writes[p] # <<>> \/ prunes[p] # <<>>) =>
              \A i \in DOMAIN results[p] : results[p][i].kind # "pending"
        /\ prunes[p] # <<>> =>
              /\ Len(lookups[p]) = Len(categories)
              /\ \A i \in DOMAIN results[p] :
                    KeepsResult(results[p][i].stories) =>
                        \E w \in DOMAIN writes[p] :
                            writes[p][w].category_id = results[p][i].name

\* a completed cycle that looked up, fetched, wrote back and pruned
C19_Witness ==
    \E p \in Procs :
        /\ pc[p] = "done"
        /\ Len(calls[p]) > 1
        /\ writes[p] # <<>>
        /\ prunes[p] # <<>>

C25_HitOnlyWhenAllValidate ==
    (/\ call.op = "get_cached_stories"
     /\ call.outcome = "found"
     /\ CalledPath \in DOMAIN cache
     /\ cache[CalledPath].kind = "object") =>
        \A i \in DOMAIN cache[CalledPath].stories :
            Validates(cache[CalledPath].stories[i])

\* a text that stands for a missing value: "", str(None), or the "unknown"
\* of client.py line 217
Placeholder(text) == text \in {EmptyStr, NoneStr, Unknown}

\* C21 as stated: every Story that get_stories returns has a non-empty id,
\* title, url and source, none of them a placeholder; a cluster in which one
\* of them is absent, null or empty gives no Story.
C21_RequiredFieldsNonEmpty ==
    call.op = "get_stories" =>
        \A i \in DOMAIN call.items :
            \A field \in {"id", "title", "url", "source"} :
                ~Placeholder(call.items[i][field])

\* the element has the stable key and the remote id
HasCategoryKeys(element) ==
    element.t = "dict" /\ {"categoryId", "id"} \subseteq DOMAIN element.d

\* C22 as stated: get_categories on a categories list never fails, drops
\* every element without categoryId or id and returns one Category for each
\* other element, in upstream order.
C22_DeficientElementsDropped ==
    (/\ call.op = "get_categories"
     /\ call.data.t = "dict"
     /\ Get(call.data, "categories", JList(<<>>)).t = "list") =>
        LET kept == SelectSeq(Get(call.data, "categories", JList(<<>>)).l,
                              HasCategoryKeys)
        IN  /\ call.raised = ""
            /\ Len(call.items) = Len(kept)
            /\ \A i \in 1..Len(kept) :
                  /\ call.items[i].name = PyStr(kept[i].d["categoryId"])
                  /\ call.items[i].id = PyStr(kept[i].d["id"])

\* the cluster is an object with a title and a list of article objects, the
\* first of which has a link, a domain and a date that parses
IsText(x) == x.t = "str" /\ x.s # EmptyStr

WellFormedArticle(article) ==
    /\ article.t = "dict"
    /\ {"link", "domain", "date"} \subseteq DOMAIN article.d
    /\ IsText(article.d["link"])
    /\ IsText(article.d["domain"])
    /\ ParsesDate(article.d["date"])

WellFormedCluster(cluster) ==
    /\ cluster.t = "dict"
    /\ "title" \in DOMAIN cluster.d
    /\ IsText(cluster.d["title"])
    /\ "articles" \in DOMAIN cluster.d
    /\ cluster.d["articles"].t = "list"
    /\ \A i \in DOMAIN cluster.d["articles"].l :
          WellFormedArticle(cluster.d["articles"].l[i])

HasArticles(cluster) ==
    WellFormedCluster(cluster) /\ cluster.d["articles"].l # <<>>

\* C23 as stated: get_stories on a stories list never fails and returns, in
\* upstream order, one Story for each well-formed cluster with articles,
\* with the url, source and date of the cluster's first article; every other
\* cluster is skipped.
C23_OneStoryPerCluster ==
    (/\ call.op = "get_stories"
     /\ call.data.t = "dict"
     /\ Get(call.data, "stories", JList(<<>>)).t = "list") =>
        LET kept == SelectSeq(Get(call.data, "stories", JList(<<>>)).l, HasArticles)
        IN  /\ call.raised = ""
            /\ Len(call.items) = Len(kept)
            /\ \A i \in 1..Len(kept) :
                  LET first == kept[i].d["articles"].l[1]
                  IN  /\ call.items[i].url = first.d["link"].s
                      /\ call.items[i].source = first.d["domain"].s
                      /\ call.items[i].published_at = first.d["date"].s

\* C24: the limit get_stories sends upstream is the limit it was called
\* with when that lies in 1..100, 100 when it is above, 1 when it is below.
C24_LimitClamped ==
    call.op = "get_stories" =>
        /\ call.limit > 100 => call.sent = 100
        /\ call.limit < 1 => call.sent = 1
        /\ call.limit \in 1..100 => call.sent = call.limit

\* get_stories was called with 500 and asked the upstream for 100
C24_Witness ==
    call.op = "get_stories" /\ call.limit = 500 /\ call.sent = 100

\* the cycle of p awaits a remote call or the gather of its fetches
InCycle(p) == pc[p] \in {"get_latest_batch", "gather"}

\* C26: a refresh cycle that awaits get_latest_batch or its fetches
\* eventually ends, done or failed, when every remote call returns or raises.
C26_CycleEnds ==
    \A p \in Procs : InCycle(p) ~> pc[p] \in {"done", "failed"}

\* a cycle that waited for two fetches has ended
C26_Witness ==
    \E p \in Procs :
        /\ pc[p] \in {"done", "failed"}
        /\ Len(results[p]) = 2
        /\ \A i \in DOMAIN results[p] : results[p][i].kind # "pending"

\* C27: a refresh with no categories resolves no batch, looks nothing up,
\* fetches nothing, and leaves the cache, current_batch_id and the story
\* mapping as they were.
C27_EmptyRefreshDoesNothing ==
    [][pc'["pump"] = "skipped" =>
          /\ UNCHANGED <<cache, current_batch_id, stories_by_category>>
          /\ resolved'["pump"] = NoneVal
          /\ lookups'["pump"] = <<>>
          /\ calls'["pump"] = <<>>]_vars

\* a refresh with no categories has returned on a screen that resolved a
\* batch before and has entries in its cache
C27_Witness ==
    /\ pc["pump"] = "skipped"
    /\ categories = <<>>
    /\ Truthy(current_batch_id)
    /\ current_batch_id # upstream_batch
    /\ cache # EmptyFiles

\* C28 as stated: when the configuration screen has saved a new selection,
\* the configuration the reload loads has the selection just saved.
C28_ReloadLoadsSaved ==
    [][config_file' # config_file =>
          /\ main_config' # NoConfig
          /\ Members(main_config'[1].selected_categories) =
                Members(ConfigFromDict(config_file'.data).config.selected_categories)]_vars

\* no usable configuration in the file: it is missing, is no valid JSON, or
\* holds JSON that is no object or whose selected_categories is no list
Unusable(file) ==
    \/ file.kind \in {"missing", "unreadable", "undecodable", "invalid_json",
                       "too_deep"}
    \/ file.data.t # "dict"
    \/ Get(file.data, "selected_categories", JList(<<>>)).t # "list"

\* C29 as stated: load never raises, and on a file without a usable
\* configuration a manager that has loaded nothing yet returns the default
\* configuration.
C29_LoadNeverRaises ==
    call.op = "load" =>
        /\ call.raised = ""
        /\ (call.cached = NoConfig /\ Unusable(call.file)) =>
               call.config = ConfigDefault

\* C30 as stated: when action_refresh has completed without error, the
\* story list shows what the mapping holds for the category whose tab is
\* active.
C30_RefreshShowsActiveTab ==
    (/\ pc["pump"] = "done"
     /\ handler["pump"] = "action_refresh"
     /\ active # EmptyStr) =>
        \A i \in DOMAIN categories :
            TabId(categories[i].name) = active =>
                story_list = DictGet(stories_by_category, categories[i].name, <<>>)

\* C33 as stated: the categories tabs were added for, all of distinct names,
\* have distinct tab ids, the mapping has one entry for each of them and
\* maps each tab id back to the name of its own category.
C33_DistinctTabIds ==
    /\ \A i, j \in DOMAIN tab_ids : tab_ids[i] = tab_ids[j] => i = j
    /\ Cardinality(DOMAIN tab_to_category) = Len(categories)
    /\ \A i \in DOMAIN tab_ids : tab_to_category[tab_ids[i]] = categories[i].name

\* C32 as stated: with tabs in the widget, action_next_tab on the last tab
\* activates the first, action_previous_tab on the first activates the last,
\* next followed by previous returns to the tab it started from, and each of
\* the two posts CategoryChanged with the name of the category whose tab it
\* activated.
C32_TabsWrapAround ==
    [][tab_ids # <<>> =>
          /\ (call'.op = "action_next_tab" /\ active = tab_ids[Len(tab_ids)]) =>
                 active' = tab_ids[1]
          /\ (call'.op = "action_previous_tab" /\ active = tab_ids[1]) =>
                 active' = tab_ids[Len(tab_ids)]
          /\ (call.op = "action_next_tab" /\ call'.op = "action_previous_tab") =>
                 active' = call.before
          /\ call'.op \in {"action_next_tab", "action_previous_tab"} =>
                 call'.posted = <<categories[call'.position + 1].name>>]_vars

\* C34 as stated: action_toggle_story on a highlighted story changes the
\* expansion of that story and of no other story of the list, two toggles in
\* a row give back the set of expanded stories, and set_stories leaves no
\* story expanded.
C34_ToggleSelectedOnly ==
    [][/\ (/\ call'.op = "action_toggle_story"
           /\ index # NoIndex
           /\ index[1] < Len(story_list)) =>
              \A i \in DOMAIN story_list :
                  (IsExpanded(story_list[i], expanded_stories')
                       # IsExpanded(story_list[i], expanded_stories))
                    <=> (i = index[1] + 1)
       /\ (call.op = "action_toggle_story" /\ call'.op = "action_toggle_story") =>
              expanded_stories' = call.before
       /\ call'.op = "set_stories" =>
              \A i \in DOMAIN story_list' :
                  ~IsExpanded(story_list'[i], expanded_stories')]_vars

\* C31 as stated: when the configuration screen is cancelled, the theme of
\* the application is the theme it had when the screen was opened.
C31_CancelRestoresTheme ==
    [][call'.op = "_cancel" => app_theme' = config_screen.theme_at_open]_vars

====
